---------------------------- MODULE Spec2Model ----------------------------
(***************************************************************************)
(* A model of the URI parser of src/http/mod.rs.  The parser is a set of   *)
(* pure functions built from nom combinators over a borrowed &str.  Text   *)
(* is modelled as a sequence of one-character strings, a parser as an      *)
(* operator from the input to an outcome:                                  *)
(*     Ok(rest, val)   the IResult Ok((rest, val))                         *)
(*     Err(errors)     Err(nom::Err::Error(VerboseError { errors }))       *)
(*     Panic           the thread unwinding from panic!                    *)
(* The state machine draws an input and applies one of the parsers to it.  *)
(***************************************************************************)
EXTENDS Integers, Sequences, FiniteSets, TLC

VARIABLES input, op, result

vars == <<input, op, result>>

---------------------------------------------------------------------------
(* Characters and character classes (nom's AsChar for char: ASCII).        *)

Upper == <<"A","B","C","D","E","F","G","H","I","J","K","L","M",
           "N","O","P","Q","R","S","T","U","V","W","X","Y","Z">>

Lower == <<"a","b","c","d","e","f","g","h","i","j","k","l","m",
           "n","o","p","q","r","s","t","u","v","w","x","y","z">>

DigitSeq == <<"0","1","2","3","4","5","6","7","8","9">>

UpperChars == {Upper[k] : k \in 1..26}

LowerChars == {Lower[k] : k \in 1..26}

DigitChars == {DigitSeq[k] : k \in 1..10}

is_alpha(c) == c \in UpperChars \cup LowerChars

is_dec_digit(c) == c \in DigitChars

is_alphanum(c) == is_alpha(c) \/ is_dec_digit(c)

to_lowercase_char(c) ==
    IF c \in UpperChars THEN Lower[CHOOSE k \in 1..26 : Upper[k] = c] ELSE c

to_lowercase(s) == [k \in 1..Len(s) |-> to_lowercase_char(s[k])]

digit_value(c) == (CHOOSE k \in 1..10 : DigitSeq[k] = c) - 1

---------------------------------------------------------------------------
(* Outcomes, options and error entries.                                    *)

Ok(rest, val) == [kind |-> "Ok", rest |-> rest, val |-> val]

Err(errors) == [kind |-> "Err", errors |-> errors]

Failure(errors) == [kind |-> "Failure", errors |-> errors]

Panic == [kind |-> "Panic"]

IsOk(r) == r.kind = "Ok"

IsErr(r) == r.kind = "Err"

None == [some |-> FALSE]

Some(v) == [some |-> TRUE, val |-> v]

NomKind(i, k) == <<i, "Nom", k>>

CtxKind(i, c) == <<i, "Context", c>>

from_error_kind(i, k) == Err(<<NomKind(i, k)>>)

append_kind(i, k, e) == Err(Append(e.errors, NomKind(i, k)))

Drop(s, n) == SubSeq(s, n + 1, Len(s))

Prefix(s, n) == SubSeq(s, 1, n)

---------------------------------------------------------------------------
(* Rust's str::parse for an unsigned integer of maximum `max`: an empty    *)
(* string and a non-digit are errors, and so is the first step at which    *)
(* the accumulated value would exceed `max` (checked_mul / checked_add).   *)

U8Max == 255

U16Max == 65535

RECURSIVE parse_from(_, _, _, _)
parse_from(s, k, acc, max) ==
    IF k > Len(s) THEN Some(acc)
    ELSE IF ~is_dec_digit(s[k]) THEN None
    ELSE LET next == acc * 10 + digit_value(s[k])
         IN  IF next > max THEN None ELSE parse_from(s, k + 1, next, max)

parse_uint(s, max) == IF Len(s) = 0 THEN None ELSE parse_from(s, 1, 0, max)

parse_u8(s) == parse_uint(s, U8Max)

parse_u16(s) == parse_uint(s, U16Max)

---------------------------------------------------------------------------
(* nom's parsers and combinators.  A parser is a value, as in nom, where   *)
(* tag(":") or opt(p) builds a parser and calling it parses: here the      *)
(* value is a record naming the combinator and its arguments, and          *)
(* parse(p, i) is the call p(i).                                           *)

tag(t) == [c |-> "tag", t |-> t]

tag_no_case(t) == [c |-> "tag_no_case", t |-> t]

take(n) == [c |-> "take", n |-> n]

alpha1 == [c |-> "alpha1"]

alphanumeric1 == [c |-> "alphanumeric1"]

one_of(set) == [c |-> "one_of", set |-> set]

context(ctx, p) == [c |-> "context", ctx |-> ctx, p |-> p]

alt(ps) == [c |-> "alt", ps |-> ps]

opt(p) == [c |-> "opt", p |-> p]

tuple(ps) == [c |-> "tuple", ps |-> ps]

terminated(p, q) == [c |-> "terminated", p |-> p, q |-> q]

separated_pair(p, sep, q) == [c |-> "separated_pair", p |-> p, sep |-> sep, q |-> q]

many0(p) == [c |-> "many0", p |-> p]

many1(p) == [c |-> "many1", p |-> p]

many_m_n(min, max, p) == [c |-> "many_m_n", min |-> min, max |-> max, p |-> p]

count(p, n) == [c |-> "count", p |-> p, n |-> n]

\* A function of src/http/mod.rs used as a parser.
fn(name) == [c |-> "fn", name |-> name]

RECURSIVE parse(_, _)

\* str::find(predicate) with the predicate negated: the length of the
\* longest prefix whose characters are all in keep.
RECURSIVE run_length(_, _)
run_length(s, keep) ==
    IF Len(s) = 0 \/ Head(s) \notin keep THEN 0 ELSE 1 + run_length(Tail(s), keep)

split_at_position1_complete(i, keep, k) ==
    LET n == run_length(i, keep)
    IN  IF n = 0 THEN from_error_kind(i, k) ELSE Ok(Drop(i, n), Prefix(i, n))

split_at_position_complete(i, keep) ==
    LET n == run_length(i, keep) IN Ok(Drop(i, n), Prefix(i, n))

tag_parse(t, i) ==
    IF Len(i) >= Len(t) /\ Prefix(i, Len(t)) = t
    THEN Ok(Drop(i, Len(t)), Prefix(i, Len(t)))
    ELSE from_error_kind(i, "Tag")

tag_no_case_parse(t, i) ==
    IF Len(i) >= Len(t) /\ to_lowercase(Prefix(i, Len(t))) = to_lowercase(t)
    THEN Ok(Drop(i, Len(t)), Prefix(i, Len(t)))
    ELSE from_error_kind(i, "Tag")

take_parse(n, i) ==
    IF Len(i) >= n THEN Ok(Drop(i, n), Prefix(i, n)) ELSE from_error_kind(i, "Eof")

one_of_parse(set, i) ==
    IF Len(i) > 0 /\ Head(i) \in set
    THEN Ok(Tail(i), Head(i))
    ELSE from_error_kind(i, "OneOf")

\* context putting its label at the front of the error trail.
context_parse_label_first(ctx, r, i) ==
    IF IsErr(r) THEN Err(<<CtxKind(i, ctx)>> \o r.errors)
    ELSE IF r.kind = "Failure" THEN Failure(<<CtxKind(i, ctx)>> \o r.errors)
    ELSE r

\* context: the label is pushed on the error trail with the input given.
context_parse(ctx, r, i) ==
    IF IsErr(r) THEN Err(Append(r.errors, CtxKind(i, ctx)))
    ELSE IF r.kind = "Failure" THEN Failure(Append(r.errors, CtxKind(i, ctx)))
    ELSE r

\* alt: the first alternative that does not fail wins; when all fail the
\* error is the last one's (ParseError::or) with Alt appended.
RECURSIVE alt_from(_, _, _)
alt_from(ps, k, i) ==
    LET r == parse(ps[k], i)
    IN  IF ~IsErr(r) THEN r
        ELSE IF k = Len(ps) THEN append_kind(i, "Alt", r)
        ELSE alt_from(ps, k + 1, i)

\* opt leaving the cursor where its parser gave up.
opt_parse_no_rewind(r, i) ==
    IF IsOk(r) THEN Ok(r.rest, Some(r.val))
    ELSE IF IsErr(r) THEN Ok(IF Len(r.errors) = 0 THEN i ELSE r.errors[1][1], None)
    ELSE r

opt_parse(r, i) ==
    IF IsOk(r) THEN Ok(r.rest, Some(r.val))
    ELSE IF IsErr(r) THEN Ok(i, None)
    ELSE r

\* tuple: each parser runs where the previous one stopped.
RECURSIVE tuple_from(_, _, _, _)
tuple_from(ps, k, i, acc) ==
    IF k > Len(ps) THEN Ok(i, acc)
    ELSE LET r == parse(ps[k], i)
         IN  IF IsOk(r) THEN tuple_from(ps, k + 1, r.rest, Append(acc, r.val)) ELSE r

terminated_parse(p, q, i) ==
    LET r == tuple_from(<<p, q>>, 1, i, <<>>)
    IN  IF IsOk(r) THEN Ok(r.rest, r.val[1]) ELSE r

separated_pair_parse(p, sep, q, i) ==
    LET r == tuple_from(<<p, sep, q>>, 1, i, <<>>)
    IN  IF IsOk(r) THEN Ok(r.rest, <<r.val[1], r.val[3]>>) ELSE r

\* The loop of many0 and many1: a parser that succeeds without consuming
\* would loop for ever, and is an error of kind k.
RECURSIVE many_from(_, _, _, _)
many_from(p, i, acc, k) ==
    LET r == parse(p, i)
    IN  IF IsErr(r) THEN Ok(i, acc)
        ELSE IF ~IsOk(r) THEN r
        ELSE IF Len(r.rest) = Len(i) THEN from_error_kind(i, k)
        ELSE many_from(p, r.rest, Append(acc, r.val), k)

many0_parse(p, i) == many_from(p, i, <<>>, "Many0")

many1_parse(p, i) ==
    LET r == parse(p, i)
    IN  IF IsErr(r) THEN append_kind(i, "Many1", r)
        ELSE IF ~IsOk(r) THEN r
        ELSE many_from(p, r.rest, <<r.val>>, "Many1")

RECURSIVE many_m_n_from(_, _, _, _, _, _)
many_m_n_from(min, max, p, i, acc, n) ==
    IF n >= max THEN Ok(i, acc)
    ELSE LET r == parse(p, i)
         IN  IF IsErr(r)
             THEN IF n < min THEN append_kind(i, "ManyMN", r) ELSE Ok(i, acc)
             ELSE IF ~IsOk(r) THEN r
             ELSE IF Len(r.rest) = Len(i) THEN from_error_kind(i, "ManyMN")
             ELSE many_m_n_from(min, max, p, r.rest, Append(acc, r.val), n + 1)

many_m_n_parse(min, max, p, i) ==
    IF min > max THEN Failure(<<NomKind(i, "ManyMN")>>)
    ELSE many_m_n_from(min, max, p, i, <<>>, 0)

RECURSIVE count_from(_, _, _, _, _)
count_from(p, n, i0, i, acc) ==
    IF Len(acc) >= n THEN Ok(i, acc)
    ELSE LET r == parse(p, i)
         IN  IF IsErr(r) THEN append_kind(i0, "Count", r)
             ELSE IF ~IsOk(r) THEN r
             ELSE count_from(p, n, i0, r.rest, Append(acc, r.val))

count_parse(p, n, i) == count_from(p, n, i, i, <<>>)

---------------------------------------------------------------------------
(* The parsers of src/http/mod.rs.                                         *)

S_http == <<"H","T","T","P",":","/","/">>

S_https == <<"H","T","T","P","S",":","/","/">>

\* Scheme::from matching the text as it is written, without to_lowercase.
Scheme_from_as_written(value) ==
    IF value = <<"h","t","t","p",":","/","/">> THEN Some("Http")
    ELSE IF value = <<"h","t","t","p","s",":","/","/">> THEN Some("Https")
    ELSE None

\* impl From<&str> for Scheme; None stands for the panic.
Scheme_from(value) ==
    LET low == to_lowercase(value)
    IN  IF low = <<"h","t","t","p",":","/","/">> THEN Some("Http")
        ELSE IF low = <<"h","t","t","p","s",":","/","/">> THEN Some("Https")
        ELSE None

\* scheme with the literals matched case-sensitively, in lower case.
scheme_case_sensitive(i) ==
    LET r == parse(context("scheme",
                           alt(<<tag(to_lowercase(S_http)), tag(to_lowercase(S_https))>>)),
                   i)
    IN  IF ~IsOk(r) THEN r ELSE Ok(r.rest, Scheme_from(r.val).val)

scheme(i) ==
    LET r == parse(context("scheme",
                           alt(<<tag_no_case(S_http), tag_no_case(S_https)>>)),
                   i)
    IN  IF ~IsOk(r) THEN r
        ELSE IF Scheme_from(r.val).some THEN Ok(r.rest, Scheme_from(r.val).val)
        ELSE Panic

\* authority with the password required after a ":".
authority_password_required(i) ==
    LET r == parse(context("authority",
                           terminated(
                               tuple(<<alphanumeric1,
                                       opt(tuple(<<tag(<<":">>), alphanumeric1>>))>>),
                               tag(<<"@">>))),
                   i)
    IN  IF ~IsOk(r) THEN r
        ELSE Ok(r.rest, <<r.val[1],
                          IF r.val[2].some THEN Some(r.val[2].val[2]) ELSE None>>)

authority(i) ==
    parse(context("authority",
                  terminated(
                      separated_pair(alphanumeric1, opt(tag(<<":">>)), opt(alphanumeric1)),
                      tag(<<"@">>))),
          i)

AlphaChars == {c \in UpperChars \cup LowerChars : is_alpha(c)}

AlphanumChars == {c \in UpperChars \cup LowerChars \cup DigitChars : is_alphanum(c)}

\* The characters at which alphanumerichyphen1 does not split.
AlphanumHyphenChars == AlphanumChars \cup {"-"}

alphanumerichyphen1(i) ==
    split_at_position1_complete(i, AlphanumHyphenChars, "AlphaNumeric")

RECURSIVE join(_, _)
join(parts, sep) ==
    IF Len(parts) = 0 THEN <<>>
    ELSE IF Len(parts) = 1 THEN parts[1]
    ELSE parts[1] \o sep \o join(Tail(parts), sep)

Host(name) == [tag |-> "Host", v |-> name]

IP(bytes) == [tag |-> "IP", v |-> bytes]

host_map(res) ==
    LET labels == IF Len(res[2]) # 0 THEN Append(res[1], res[2]) ELSE res[1]
    IN  Host(join(labels, <<".">>))

\* host with any alphanumeric final label.
host_any_final_label(i) ==
    LET r == parse(context("host",
                           alt(<<tuple(<<many1(terminated(fn("alphanumerichyphen1"),
                                                          tag(<<".">>))),
                                         alphanumeric1>>),
                                 tuple(<<many_m_n(1, 1, fn("alphanumerichyphen1")),
                                         take(0)>>)>>)),
                   i)
    IN  IF IsOk(r) THEN Ok(r.rest, host_map(r.val)) ELSE r

host(i) ==
    LET r == parse(context("host",
                           alt(<<tuple(<<many1(terminated(fn("alphanumerichyphen1"),
                                                          tag(<<".">>))),
                                         alpha1>>),
                                 tuple(<<many_m_n(1, 1, fn("alphanumerichyphen1")),
                                         take(0)>>)>>)),
                   i)
    IN  IF IsOk(r) THEN Ok(r.rest, host_map(r.val)) ELSE r

\* The closure n_to_m_digits(n, m) returns; the digits are collected
\* into a String, which is the sequence of characters itself.
n_to_m_digits(n, m) == many_m_n(n, m, one_of(DigitChars))

\* ip_num accepting one value too many.
ip_num_off_by_one(i) ==
    LET r == parse(context("ip number", n_to_m_digits(1, 3)), i)
    IN  IF ~IsOk(r) THEN r
        ELSE LET n == parse_uint(r.val, U8Max + 1)
             IN  IF n.some THEN Ok(r.rest, n.val) ELSE Err(<<>>)

\* ip_num falling back to the first two digits, then the first one, when
\* three digits do not fit.
ip_num_backtracking(i) ==
    LET try(m) ==
            LET r == parse(context("ip number", n_to_m_digits(1, m)), i)
            IN  IF ~IsOk(r) THEN r
                ELSE LET n == parse_u8(r.val)
                     IN  IF n.some THEN Ok(r.rest, n.val) ELSE Err(<<>>)
    IN  IF ~IsErr(try(3)) THEN try(3)
        ELSE IF ~IsErr(try(2)) THEN try(2)
        ELSE try(1)

ip_num(i) ==
    LET r == parse(context("ip number", n_to_m_digits(1, 3)), i)
    IN  IF ~IsOk(r) THEN r
        ELSE LET n == parse_u8(r.val)
             IN  IF n.some THEN Ok(r.rest, n.val) ELSE Err(<<>>)

\* result[i] = v for (i, v) in res.0.into_iter().enumerate(): an index
\* outside the 4-element array panics (None).
RECURSIVE ip_fill(_, _, _)
ip_fill(vals, k, arr) ==
    IF k >= Len(vals) THEN Some(arr)
    ELSE IF k >= Len(arr) THEN None
    ELSE ip_fill(vals, k + 1, [arr EXCEPT ![k + 1] = vals[k + 1]])

ip_map(res) ==
    LET filled == ip_fill(res[1], 0, <<0, 0, 0, 0>>)
    IN  IF filled.some THEN Some(IP([filled.val EXCEPT ![4] = res[2]])) ELSE None

ip(i) ==
    LET r == parse(context("ip",
                           tuple(<<count(terminated(fn("ip_num"), tag(<<".">>)), 3),
                                   fn("ip_num")>>)),
                   i)
    IN  IF ~IsOk(r) THEN r
        ELSE IF ip_map(r.val).some THEN Ok(r.rest, ip_map(r.val).val)
        ELSE Panic

\* ip_or_host with the domain branch tried first.
ip_or_host_host_first(i) ==
    parse(context("ip or host", alt(<<fn("host"), fn("ip")>>)), i)

ip_or_host(i) == parse(context("ip or host", alt(<<fn("ip"), fn("host")>>)), i)

\* The characters at which url_code_points does not split.
UrlCodePointChars == AlphanumChars \cup {"-", "."}

url_code_points(i) == split_at_position_complete(i, UrlCodePointChars)

\* path_map without the is_empty test on the trailing segment.
path_map_keep_empty(res) ==
    IF res[3].some THEN Append(res[2], res[3].val) ELSE res[2]

path_map(res) ==
    IF res[3].some /\ Len(res[3].val) # 0
    THEN Append(res[2], res[3].val)
    ELSE res[2]

path(i) ==
    LET r == parse(context("path",
                           tuple(<<tag(<<"/">>),
                                   many0(terminated(fn("url_code_points"), tag(<<"/">>))),
                                   opt(fn("url_code_points"))>>)),
                   i)
    IN  IF IsOk(r) THEN Ok(r.rest, path_map(r.val)) ELSE r

\* query_params_map keeping, for each key, only its last pair.
query_params_last_wins(res) ==
    LET all == <<<<res[2], res[4]>>>>
               \o [k \in 1..Len(res[5]) |-> <<res[5][k][2], res[5][k][4]>>]
        keep == {k \in 1..Len(all) : \A j \in (k + 1)..Len(all) : all[j][1] # all[k][1]}
        F[k \in 0..Len(all)] ==
            IF k = 0 THEN <<>>
            ELSE IF k \in keep THEN Append(F[k - 1], all[k]) ELSE F[k - 1]
    IN  F[Len(all)]

query_params_map(res) ==
    <<<<res[2], res[4]>>>> \o [k \in 1..Len(res[5]) |-> <<res[5][k][2], res[5][k][4]>>]

query_params(i) ==
    LET r == parse(context("query params",
                           tuple(<<tag(<<"?">>),
                                   fn("url_code_points"),
                                   tag(<<"=">>),
                                   fn("url_code_points"),
                                   many0(tuple(<<tag(<<"&">>),
                                                 fn("url_code_points"),
                                                 tag(<<"=">>),
                                                 fn("url_code_points")>>))>>)),
                   i)
    IN  IF IsOk(r) THEN Ok(r.rest, query_params_map(r.val)) ELSE r

fragment(i) ==
    LET r == parse(context("fragment", tuple(<<tag(<<"#">>), fn("url_code_points")>>)), i)
    IN  IF IsOk(r) THEN Ok(r.rest, r.val[2]) ELSE r

\* port reading up to 6 digits.
port_six_digits(i) ==
    LET r == parse(context("port", tuple(<<tag(<<":">>), n_to_m_digits(1, 6)>>)), i)
    IN  IF ~IsOk(r) THEN r
        ELSE LET n == parse_u16(r.val[2])
             IN  IF n.some THEN Ok(r.rest, n.val) ELSE Err(<<>>)

port(i) ==
    LET r == parse(context("port", tuple(<<tag(<<":">>), n_to_m_digits(1, 5)>>)), i)
    IN  IF ~IsOk(r) THEN r
        ELSE LET n == parse_u16(r.val[2])
             IN  IF n.some THEN Ok(r.rest, n.val) ELSE Err(<<>>)

URI(res) ==
    [scheme |-> res[1], authority |-> res[2], host |-> res[3], port |-> res[4],
     path |-> res[5], query |-> res[6], fragment |-> res[7]]

\* uri with the port tried after the path instead of before it.
uri_port_after_path(i) ==
    LET r == parse(context("uri",
                           tuple(<<fn("scheme"),
                                   opt(fn("authority")),
                                   fn("ip_or_host"),
                                   opt(fn("path")),
                                   opt(fn("port")),
                                   opt(fn("query_params")),
                                   opt(fn("fragment"))>>)),
                   i)
    IN  IF IsOk(r)
        THEN Ok(r.rest, URI(<<r.val[1], r.val[2], r.val[3], r.val[5], r.val[4],
                              r.val[6], r.val[7]>>))
        ELSE r

\* uri with a mandatory port.
uri_port_required(i) ==
    LET r == parse(context("uri",
                           tuple(<<fn("scheme"),
                                   opt(fn("authority")),
                                   fn("ip_or_host"),
                                   tuple(<<fn("port")>>),
                                   opt(fn("path")),
                                   opt(fn("query_params")),
                                   opt(fn("fragment"))>>)),
                   i)
    IN  IF IsOk(r) THEN Ok(r.rest, URI([r.val EXCEPT ![4] = Some(r.val[4][1])])) ELSE r

uri(i) ==
    LET r == parse(context("uri",
                           tuple(<<fn("scheme"),
                                   opt(fn("authority")),
                                   fn("ip_or_host"),
                                   opt(fn("port")),
                                   opt(fn("path")),
                                   opt(fn("query_params")),
                                   opt(fn("fragment"))>>)),
                   i)
    IN  IF IsOk(r) THEN Ok(r.rest, URI(r.val)) ELSE r

\* The call of a function of the module used as a parser.
call(name, i) ==
    CASE name = "scheme" -> scheme(i)
      [] name = "authority" -> authority(i)
      [] name = "host" -> host(i)
      [] name = "alphanumerichyphen1" -> alphanumerichyphen1(i)
      [] name = "ip_num" -> ip_num(i)
      [] name = "ip" -> ip(i)
      [] name = "ip_or_host" -> ip_or_host(i)
      [] name = "url_code_points" -> url_code_points(i)
      [] name = "path" -> path(i)
      [] name = "query_params" -> query_params(i)
      [] name = "fragment" -> fragment(i)
      [] name = "port" -> port(i)

\* The call p(i) of a parser.
parse(p, i) ==
    CASE p.c = "tag" -> tag_parse(p.t, i)
      [] p.c = "tag_no_case" -> tag_no_case_parse(p.t, i)
      [] p.c = "take" -> take_parse(p.n, i)
      [] p.c = "alpha1" -> split_at_position1_complete(i, AlphaChars, "Alpha")
      [] p.c = "alphanumeric1" ->
             split_at_position1_complete(i, AlphanumChars, "AlphaNumeric")
      [] p.c = "one_of" -> one_of_parse(p.set, i)
      [] p.c = "context" -> context_parse(p.ctx, parse(p.p, i), i)
      [] p.c = "alt" -> alt_from(p.ps, 1, i)
      [] p.c = "opt" -> opt_parse(parse(p.p, i), i)
      [] p.c = "tuple" -> tuple_from(p.ps, 1, i, <<>>)
      [] p.c = "terminated" -> terminated_parse(p.p, p.q, i)
      [] p.c = "separated_pair" -> separated_pair_parse(p.p, p.sep, p.q, i)
      [] p.c = "many0" -> many0_parse(p.p, i)
      [] p.c = "many1" -> many1_parse(p.p, i)
      [] p.c = "many_m_n" -> many_m_n_parse(p.min, p.max, p.p, i)
      [] p.c = "count" -> count_parse(p.p, p.n, i)
      [] p.c = "fn" -> call(p.name, i)

---------------------------------------------------------------------------
(* Inputs.  Each family of inputs exercises one parser: the strings of its  *)
(* unit test, and strings put together from the pieces its grammar tells    *)
(* apart.                                                                   *)

MaxTail == 2

MaxGroups == 4

MaxHostLen == 5

MaxAuthLen == 5

MaxPathLen == 5

MaxPairs == 2

MaxPortDigits == 6

Strs(A, n) == UNION {[1..k -> A] : k \in 0..n}

Cat2(A, B) == {a \o b : a \in A, b \in B}

to_uppercase_char(c) ==
    IF c \in LowerChars THEN Upper[CHOOSE k \in 1..26 : Lower[k] = c] ELSE c

\* Every way of writing s with each letter in upper or lower case.
CaseVariants(s) ==
    {[k \in 1..Len(s) |-> IF k \in M THEN to_uppercase_char(s[k]) ELSE s[k]] :
        M \in SUBSET {k \in 1..Len(s) : s[k] \in LowerChars}}

\* s with one character replaced by c, and the proper prefixes of s.
NearMisses(s, c) ==
    {[s EXCEPT ![k] = c] : k \in 1..Len(s)} \cup {Prefix(s, k) : k \in 0..(Len(s) - 1)}

L_http == to_lowercase(S_http)

L_https == to_lowercase(S_https)

SchemeTests ==
    { <<"H","T","T","P",":","/","/">>,
      <<"H","T","T","P","S",":","/","/">>,
      <<"h","t","t","p","s",":","/","/","y","a","y">>,
      <<"h","t","t","p",":","/","/","y","a","y">>,
      <<"b","l","a",":","/","/","y","a","y">>,
      <<"f","t","p",":","/","/">> }

SchemeInputs ==
    SchemeTests
    \cup Cat2(CaseVariants(L_http) \cup CaseVariants(L_https)
              \cup NearMisses(L_http, "x") \cup NearMisses(L_https, "x"),
              Strs({"y", "s", "/"}, MaxTail))

AuthorityTests ==
    { <<"u","s","e","r","n","a","m","e",":","p","a","s","s","w","o","r","d","@","z","u","p","z","u","p",".","o","r","g">>,
      <<"u","s","e","r","n","a","m","e","@","z","u","p","z","u","p",".","o","r","g">>,
      <<"z","u","p","z","u","p",".","o","r","g">>,
      <<":","z","u","p","z","u","p",".","o","r","g">>,
      <<"u","s","e","r","n","a","m","e",":","p","a","s","s","w","o","r","d","z","u","p","z","u","p",".","o","r","g">>,
      <<"@","z","u","p","z","u","p",".","o","r","g">>,
      <<"u","s","e","r","1",":","p","w","2","@","h">> }

AuthorityInputs == AuthorityTests \cup Strs({"u", ":", "@", "."}, MaxAuthLen)

HostTests ==
    { <<"l","o","c","a","l","h","o","s","t",":","8","0","8","0">>,
      <<"e","x","a","m","p","l","e",".","o","r","g",":","8","0","8","0">>,
      <<"s","o","m","e","-","s","u","b","s","i","t","e",".","e","x","a","m","p","l","e",".","o","r","g",":","8","0","8","0">>,
      <<"e","x","a","m","p","l","e",".","1","2","3">>,
      <<"$","$","$",".","c","o","m">>,
      <<".","c","o","m">> }

HostInputs ==
    HostTests \cup Cat2(Strs({"a", "1", "-", "."}, MaxHostLen), {<<>>, <<":", "8">>})

IpTests ==
    { <<"1","9","2",".","1","6","8",".","0",".","1",":","8","0","8","0">>,
      <<"0",".","0",".","0",".","0",":","8","0","8","0">>,
      <<"1","9","2","4",".","1","6","8",".","0",".","1",":","8","0","8","0">>,
      <<"1","9","2",".","1","6","8",".","0","0","0","0",".","1","4","4",":","8","0","8","0">>,
      <<"1","9","2",".","1","6","8",".","0",".","1","4","4","4",":","8","0","8","0">>,
      <<"1","9","2",".","1","6","8",".","0",":","8","0","8","0">>,
      <<"9","9","9",".","1","6","8",".","0",".","0",":","8","0","8","0">> }
Octets ==
    { <<"0">>,
      <<"0","0","7">>,
      <<"2","5","5">>,
      <<"2","5","6">>,
      <<"9","9","9">>,
      <<"1","4","4","4">>,
      <<"2","5","6","0">> }
IpTails ==
    { <<>>,
      <<":","8","0","8","0">>,
      <<"x">> }

IpInputs ==
    IpTests
    \cup {join(gs, <<".">>) \o t :
              gs \in UNION {[1..n -> Octets] : n \in 1..MaxGroups}, t \in IpTails}

PortTests ==
    { <<":","8","0","8","0">>,
      <<":","8","0">>,
      <<":","8">>,
      <<":","8","0","8","0","0">>,
      <<":","8","0","8","0","a">>,
      <<"8","0","8","0">>,
      <<":">>,
      <<":","0","0","0","8","0">>,
      <<":","0","6","5","5","3","5">> }
PortTails ==
    { <<>>,
      <<"/">>,
      <<"a">> }

PortInputs ==
    PortTests
    \cup {<<":">> \o d \o t : d \in Strs({"6", "5", "3"}, MaxPortDigits), t \in PortTails}

PathTests ==
    { <<"/","a","/","b","/","c","?","d">>,
      <<"/","a","/","b","/","c","/","?","d">>,
      <<"/","a","/","b","-","c","-","d","/","c","/","?","d">>,
      <<"/","a","/","1","2","3","4","/","c","/","?","d">>,
      <<"/","a","/","1","2","3","4","/","c",".","t","x","t","?","d">> }

PathInputs == PathTests \cup Strs({"/", "a", ".", "?"}, MaxPathLen)

QueryTests ==
    { <<"?","b","l","a","=","5","&","b","l","u","b","=","v","a","l","#","y","a","y">>,
      <<"?","b","l","a","-","b","l","u","b","=","a","r","r","-","a","r","r","#","y","a","y">> }
QueryWords ==
    { <<>>,
      <<"a">>,
      <<"b","-","1">> }
QueryTails ==
    { <<>>,
      <<"#","y","a","y">>,
      <<"&">>,
      <<"=","c">>,
      <<"&","a">> }

QueryPairs == {w \o <<"=">> \o v : w \in QueryWords, v \in QueryWords}

QueryInputs ==
    QueryTests
    \cup {lead \o join(ps, <<"&">>) \o t :
              lead \in {<<"?">>, <<>>},
              ps \in UNION {[1..n -> QueryPairs] : n \in 1..MaxPairs},
              t \in QueryTails}

UriTests ==
    { <<"h","t","t","p","s",":","/","/","w","w","w",".","z","u","p","z","u","p",".","o","r","g","/","a","b","o","u","t","/">>,
      <<"h","t","t","p",":","/","/","l","o","c","a","l","h","o","s","t">>,
      <<"h","t","t","p","s",":","/","/","w","w","w",".","z","u","p","z","u","p",".","o","r","g",":","4","4","3","/","a","b","o","u","t","/","?","s","o","m","e","V","a","l","=","5","#","a","n","c","h","o","r">>,
      <<"h","t","t","p",":","/","/","u","s","e","r",":","p","w","@","1","2","7",".","0",".","0",".","1",":","8","0","8","0">>,
      <<"h","t","t","p",":","/","/","l","o","c","a","l","h","o","s","t",":","8","0","8","0","/","x">> }
UriSchemes ==
    { <<"h","t","t","p","s",":","/","/">>,
      <<"H","T","T","P",":","/","/">>,
      <<"f","t","p",":","/","/">> }
UriAuthorities ==
    { <<>>,
      <<"u","s","e","r",":","p","w","@">>,
      <<"u","@">> }
UriHosts ==
    { <<"w","w","w",".","z","u","p","z","u","p",".","o","r","g">>,
      <<"l","o","c","a","l","h","o","s","t">>,
      <<"1","2","7",".","0",".","0",".","1">>,
      <<"1",".","2",".","3",".","4",".","c","o","m">>,
      <<"2","5","6",".","1",".","1",".","1">>,
      <<>> }
UriPorts ==
    { <<>>,
      <<":","4","4","3">>,
      <<":","8","0","8","0","0">>,
      <<":">> }
UriPaths ==
    { <<>>,
      <<"/","a","b","o","u","t","/">>,
      <<"/","a","/","b">> }
UriQueries ==
    { <<>>,
      <<"?","s","o","m","e","V","a","l","=","5">>,
      <<"?","x">>,
      <<"?","k","=","v","&","k","=","w">> }
UriFragments ==
    { <<>>,
      <<"#","a","n","c","h","o","r">>,
      <<"!","x">> }

UriInputs ==
    UriTests
    \cup {s \o a \o h \o p \o pa \o qu \o f :
              s \in UriSchemes, a \in UriAuthorities, h \in UriHosts, p \in UriPorts,
              pa \in UriPaths, qu \in UriQueries, f \in UriFragments}

\* The inputs of the dispatcher: dotted groups that are octets, numbers out
\* of an octet's range, or labels, so that either branch, both or none match.
IpOrHostExample == <<"1",".","2",".","3",".","4",".","c","o","m">>

IpOrHostGroups ==
    { <<"1">>,
      <<"2","5","5">>,
      <<"2","5","6">>,
      <<"a">>,
      <<"a","-","1">> }

IpOrHostTails ==
    { <<>>,
      <<".","c","o","m">>,
      <<":","8">> }

IpOrHostInputs ==
    IpTests \cup HostTests \cup {IpOrHostExample}
    \cup {join(gs, <<".">>) \o t :
              gs \in UNION {[1..n -> IpOrHostGroups] : n \in 0..MaxGroups},
              t \in IpOrHostTails}

\* The inputs of all the parsers together.
AllInputs ==
    UriInputs \cup SchemeInputs \cup AuthorityInputs \cup HostInputs \cup IpOrHostInputs
    \cup PortInputs \cup PathInputs \cup QueryInputs

---------------------------------------------------------------------------
(* The state machine: an input is drawn, and one parser is applied to it.  *)

NoResult == [kind |-> "None"]

Apply(name, r) ==
    /\ op = "init"
    /\ op' = name
    /\ result' = r
    /\ UNCHANGED input

ParseScheme == Apply("scheme", scheme(input))

ParseAuthority == Apply("authority", authority(input))

ParseHost == Apply("host", host(input))

ParseIpNum == Apply("ip_num", ip_num(input))

ParseIp == Apply("ip", ip(input))

ParseIpOrHost == Apply("ip_or_host", ip_or_host(input))

ParsePath == Apply("path", path(input))

ParseQueryParams == Apply("query_params", query_params(input))

ParseFragment == Apply("fragment", fragment(input))

ParsePort == Apply("port", port(input))

ParseUri == Apply("uri", uri(input))

Next ==
    \/ ParseScheme
    \/ ParseAuthority
    \/ ParseHost
    \/ ParseIpNum
    \/ ParseIp
    \/ ParseIpOrHost
    \/ ParsePath
    \/ ParseQueryParams
    \/ ParseFragment
    \/ ParsePort
    \/ ParseUri

InitWith(inputs) == input \in inputs /\ op = "init" /\ result = NoResult

Init == InitWith(UriInputs)

Spec == Init /\ [][Next]_vars

InitScheme == InitWith(SchemeInputs)

SpecScheme == InitScheme /\ [][Next]_vars

InitAuthority == InitWith(AuthorityInputs)

SpecAuthority == InitAuthority /\ [][Next]_vars

InitHost == InitWith(HostInputs)

SpecHost == InitHost /\ [][Next]_vars

InitIp == InitWith(IpInputs)

SpecIp == InitIp /\ [][Next]_vars

InitPort == InitWith(PortInputs)

SpecPort == InitPort /\ [][Next]_vars

InitPath == InitWith(PathInputs)

SpecPath == InitPath /\ [][Next]_vars

InitQuery == InitWith(QueryInputs)

SpecQuery == InitQuery /\ [][Next]_vars

InitIpOrHost == InitWith(IpOrHostInputs)

SpecIpOrHost == InitIpOrHost /\ [][Next]_vars

InitAll == InitWith(AllInputs)

SpecAll == InitAll /\ [][Next]_vars

---------------------------------------------------------------------------
(* Properties.                                                             *)

IsSuffix(t, s) == Len(t) <= Len(s) /\ Drop(s, Len(s) - Len(t)) = t

LastError(r) == r.errors[Len(r.errors)]

\* What an optional component yields from its sub-parser's outcome at i.
OptValue(r) == IF IsOk(r) THEN Some(r.val) ELSE None

OptCursor(r, i) == IF IsOk(r) THEN r.rest ELSE i

Zupzup == <<"h","t","t","p","s",":","/","/","w","w","w",".","z","u","p","z","u","p",".","o","r","g",":","4","4","3","/","a","b","o","u","t","/","?","s","o","m","e","V","a","l","=","5","#","a","n","c","h","o","r">>

ZupzupURI ==
    [scheme |-> "Https", authority |-> None, host |-> Host(<<"w","w","w",".","z","u","p","z","u","p",".","o","r","g">>),
     port |-> Some(443), path |-> Some(<<<<"a","b","o","u","t">>>>),
     query |-> Some(<<<<<<"s","o","m","e","V","a","l">>, <<"5">>>>>>), fragment |-> Some(<<"a","n","c","h","o","r">>)]

\* The components applied one after the other, each at the cursor the
\* previous one left.
UriByComponents(i) ==
    LET s  == scheme(i)
        a  == authority(s.rest)
        c2 == OptCursor(a, s.rest)
        h  == ip_or_host(c2)
        p  == port(h.rest)
        c4 == OptCursor(p, h.rest)
        pa == path(c4)
        c5 == OptCursor(pa, c4)
        qu == query_params(c5)
        c6 == OptCursor(qu, c5)
        f  == fragment(c6)
        c7 == OptCursor(f, c6)
    IN  IF ~IsOk(s) THEN None
        ELSE IF ~IsOk(h) THEN None
        ELSE Some(Ok(c7, [scheme |-> s.val, authority |-> OptValue(a),
                          host |-> h.val, port |-> OptValue(p),
                          path |-> OptValue(pa), query |-> OptValue(qu),
                          fragment |-> OptValue(f)]))

(* C1: uri's result is the left-to-right composition scheme, optional      *)
(* authority, ip_or_host, optional port, optional path, optional           *)
(* query_params, optional fragment, each at the cursor left by the         *)
(* previous one; an optional field is None exactly when its sub-parser     *)
(* fails there; the remaining input is the cursor after the fragment step. *)
(* The zupzup URI gives Https, no authority, Host("www.zupzup.org"), 443,  *)
(* ["about"], [("someVal","5")], "anchor" and nothing remaining.           *)
C1_UriIsComposition ==
    op = "uri" =>
        /\ LET e == UriByComponents(input)
           IN  IF e.some THEN result = e.val ELSE ~IsOk(result)
        /\ input = Zupzup => result = Ok(<<>>, ZupzupURI)

C1_Witness ==
    /\ op = "uri"
    /\ IsOk(result)
    /\ result.val.authority.some
    /\ result.val.host.tag = "IP"
    /\ ~result.val.port.some
    /\ result.val.path.some
    /\ ~result.val.query.some
    /\ result.val.fragment.some

HttpSpellings == CaseVariants(L_http)

HttpsSpellings == CaseVariants(L_https)

HasSchemePrefix(i) ==
    \/ Len(i) >= 7 /\ Prefix(i, 7) \in HttpSpellings
    \/ Len(i) >= 8 /\ Prefix(i, 8) \in HttpsSpellings

(* C2: uri fails exactly when scheme fails at the start of the input or    *)
(* ip_or_host fails at the cursor after the scheme and the optional        *)
(* authority (no host can start there).  A failing authority, port, path,  *)
(* query_params or fragment, or input left over, never makes it fail: the  *)
(* left-over text is returned as the remaining suffix.                     *)
C2_UriFailsIff ==
    op = "uri" =>
        LET s  == scheme(input)
            c2 == OptCursor(authority(s.rest), s.rest)
        IN  /\ result.kind \in {"Ok", "Err"}
            /\ IsOk(s) <=> HasSchemePrefix(input)
            /\ IsErr(result) <=>
                   \/ ~HasSchemePrefix(input)
                   \/ ~IsOk(ip_or_host(c2))
            /\ IsOk(s) =>
                   (IsOk(ip_or_host(c2)) <=>
                        Len(c2) > 0 /\ c2[1] \in AlphanumHyphenChars)
            /\ IsOk(result) => IsSuffix(result.rest, input)

\* The port is rejected, no later component matches, and the garbage is
\* handed back.
C2_Witness ==
    /\ op = "uri"
    /\ IsOk(result)
    /\ ~IsOk(authority(scheme(input).rest))
    /\ ~result.val.port.some
    /\ ~result.val.path.some
    /\ ~result.val.query.some
    /\ ~result.val.fragment.some
    /\ Len(result.rest) >= 6
    /\ result.rest[1] = ":"

(* C3: scheme succeeds exactly on the inputs that start with "http://" or  *)
(* "https://" in any mix of upper and lower case; it yields Http for the   *)
(* 7-character prefix and Https for the 8-character one, and the rest of   *)
(* the input after the prefix.  On any other input it fails and the last   *)
(* entry of the error trail is (the whole input, context "scheme").        *)
C3_SchemeCaseInsensitive ==
    op = "scheme" =>
        IF Len(input) >= 7 /\ Prefix(input, 7) \in HttpSpellings
        THEN result = Ok(Drop(input, 7), "Http")
        ELSE IF Len(input) >= 8 /\ Prefix(input, 8) \in HttpsSpellings
        THEN result = Ok(Drop(input, 8), "Https")
        ELSE /\ IsErr(result)
             /\ Len(result.errors) > 0
             /\ LastError(result) = CtxKind(input, "scheme")

C3_Witness ==
    /\ op = "scheme"
    /\ IsOk(result)
    /\ result.val = "Https"
    /\ Prefix(input, 8) \notin {L_https, S_https}
    /\ Len(result.rest) > 0

---------------------------------------------------------------------------
(* Dotted groups of digits, read off the text itself: a group is a maximal *)
(* run of decimal digits, and the next one starts after a single dot.      *)

LeadDigits(s) ==
    CHOOSE n \in 0..Len(s) :
        /\ \A k \in 1..n : s[k] \in DigitChars
        /\ n = Len(s) \/ s[n + 1] \notin DigitChars

RECURSIVE DecimalValue(_)
DecimalValue(ds) ==
    IF Len(ds) = 0 THEN 0
    ELSE 10 * DecimalValue(Prefix(ds, Len(ds) - 1)) + digit_value(ds[Len(ds)])

\* At most n groups from the start of s, and the text after the last one.
RECURSIVE DottedGroups(_, _)
DottedGroups(s, n) ==
    LET d == LeadDigits(s)
        after == Drop(s, d)
    IN  IF n = 0 \/ d = 0 THEN [groups |-> <<>>, rest |-> s]
        ELSE IF n > 1 /\ Len(after) >= 2 /\ after[1] = "." /\ after[2] \in DigitChars
        THEN LET more == DottedGroups(Tail(after), n - 1)
             IN  [groups |-> <<Prefix(s, d)>> \o more.groups, rest |-> more.rest]
        ELSE [groups |-> <<Prefix(s, d)>>, rest |-> after]

IsOctet(g) == Len(g) \in 1..3 /\ DecimalValue(g) <= 255

(* C4: when the input starts with four groups of 1 to 3 digits separated   *)
(* by single dots, each of value 0..255 (leading zeros allowed), the last  *)
(* followed by a non-digit or the end, ip succeeds with IP of those four   *)
(* values in order and leaves the text after the fourth group.  ip fails   *)
(* when one of the four groups is a 3-digit value in 256..999, and when    *)
(* fewer than four dot-separated groups are present.                       *)
C4_IpDottedQuad ==
    op = "ip" =>
        LET d  == DottedGroups(input, 4)
            gs == d.groups
        IN  /\ (Len(gs) = 4 /\ \A k \in 1..4 : IsOctet(gs[k])) =>
                   result = Ok(d.rest, IP([k \in 1..4 |-> DecimalValue(gs[k])]))
            /\ (/\ Len(gs) = 4
                /\ \A k \in 1..4 : Len(gs[k]) \in 1..3
                /\ \E k \in 1..4 : Len(gs[k]) = 3 /\ DecimalValue(gs[k]) \in 256..999) =>
                   IsErr(result)
            /\ Len(gs) < 4 => IsErr(result)

C4_Witness ==
    /\ op = "ip"
    /\ IsOk(result)
    /\ Len(input) = 18
    /\ result.val = IP(<<7, 255, 0, 7>>)
    /\ result.rest = <<":", "8", "0", "8", "0">>

(* C5: an octet is the first 3 digits of a longer run, never fewer.  With  *)
(* 4 or more digits in the fourth position ip takes the first 3: if they   *)
(* are at most 255 it succeeds with that value and leaves the 4th and      *)
(* later digits unconsumed, otherwise it fails.  With 4 or more digits in  *)
(* one of the first three positions ip fails.                              *)
C5_IpGreedyOctet ==
    op = "ip" =>
        LET d  == DottedGroups(input, 4)
            gs == d.groups
        IN  /\ (/\ Len(gs) = 4
                /\ \A k \in 1..3 : IsOctet(gs[k])
                /\ Len(gs[4]) >= 4) =>
                   IF DecimalValue(Prefix(gs[4], 3)) <= 255
                   THEN result = Ok(Drop(gs[4], 3) \o d.rest,
                                    IP([k \in 1..4 |->
                                           IF k < 4 THEN DecimalValue(gs[k])
                                           ELSE DecimalValue(Prefix(gs[4], 3))]))
                   ELSE IsErr(result)
            /\ (\E k \in 1..3 : k <= Len(gs) /\ Len(gs[k]) >= 4) => IsErr(result)

C5_Witness ==
    /\ op = "ip"
    /\ IsOk(result)
    /\ result.val.v[4] = 144
    /\ Len(result.rest) > 1
    /\ result.rest[1] = "4"

---------------------------------------------------------------------------
(* Runs and pieces of text, read off the text itself.                      *)

AlnumChars == UpperChars \cup LowerChars \cup DigitChars

LabelChars == AlnumChars \cup {"-"}

CodePointChars == AlnumChars \cup {"-", "."}

\* The length of the longest prefix of s made of characters of C.
LeadRun(s, C) ==
    CHOOSE n \in 0..Len(s) :
        /\ \A k \in 1..n : s[k] \in C
        /\ n = Len(s) \/ s[n + 1] \notin C

\* The pieces of s between the occurrences of c.
RECURSIVE SplitOn(_, _)
SplitOn(s, c) ==
    IF \A k \in 1..Len(s) : s[k] # c THEN <<s>>
    ELSE LET p == CHOOSE k \in 1..Len(s) : s[k] = c /\ \A j \in 1..(k - 1) : s[j] # c
         IN  <<Prefix(s, p - 1)>> \o SplitOn(Drop(s, p), c)

StartsWith(s, C) == Len(s) > 0 /\ s[1] \in C

\* The text after the leading "label." groups of s.
RECURSIVE AfterDottedLabels(_)
AfterDottedLabels(s) ==
    LET n == LeadRun(s, LabelChars)
    IN  IF n >= 1 /\ n < Len(s) /\ s[n + 1] = "." THEN AfterDottedLabels(Drop(s, n + 1))
        ELSE s

(* C6: when the input starts with a domain D of two or more dot-separated  *)
(* labels, all but the last non-empty runs of alphanumerics and hyphens,   *)
(* the last a non-empty alphabetic run followed by the end or a character  *)
(* that is no alphanumeric, hyphen or dot, host gives Host(D) and leaves   *)
(* the text after D.  When the text after the last consumed dot does not   *)
(* start with a letter, host gives only the first label and leaves         *)
(* everything from the first "." on.  A single label with no dot is the    *)
(* host name.  host fails when the input does not start with an            *)
(* alphanumeric or a hyphen.                                               *)
C6_HostDomain ==
    op = "host" =>
        LET n      == LeadRun(input, CodePointChars)
            D      == Prefix(input, n)
            labels == SplitOn(D, ".")
            first  == LeadRun(input, LabelChars)
        IN  /\ (/\ Len(labels) >= 2
                /\ \A k \in 1..Len(labels) : Len(labels[k]) > 0
                /\ \A c \in 1..Len(labels[Len(labels)]) :
                       is_alpha(labels[Len(labels)][c])) =>
                   result = Ok(Drop(input, n), Host(D))
            /\ (/\ first >= 1
                /\ AfterDottedLabels(input) # input
                /\ ~StartsWith(AfterDottedLabels(input), UpperChars \cup LowerChars)) =>
                   result = Ok(Drop(input, first), Host(Prefix(input, first)))
            /\ (first >= 1 /\ (first = Len(input) \/ input[first + 1] # ".")) =>
                   result = Ok(Drop(input, first), Host(Prefix(input, first)))
            /\ ~StartsWith(input, LabelChars) => IsErr(result)

C6_Witness ==
    /\ op = "host"
    /\ IsOk(result)
    /\ result.val = Host(<<"a", ".", "1", ".", "a">>)
    /\ result.rest = <<":", "8">>

(* C7 as claimed: port reads ":" and 1 to 5 digits and succeeds with their *)
(* value only when it fits in 16 bits; every digit string that overflows   *)
(* 16 bits, a 5-digit one above 65535 or a run of 6 digits, makes port     *)
(* fail; port fails without a leading ":" and without a digit after it.    *)
C7_PortAsClaimed ==
    op = "port" =>
        IF StartsWith(input, {":"}) /\ LeadDigits(Tail(input)) >= 1
        THEN LET d == LeadDigits(Tail(input))
                 digits == Prefix(Tail(input), d)
             IN  IF d <= 5 /\ DecimalValue(digits) <= 65535
                 THEN result = Ok(Drop(input, d + 1), DecimalValue(digits))
                 ELSE IsErr(result)
        ELSE IsErr(result)

(* C7, amended: port reads ":" and the first 1 to 5 digits of the run that *)
(* follows, and succeeds with their value exactly when it is at most       *)
(* 65535, leaving everything after those digits, the 6th and later digits  *)
(* of a longer run included; it fails when the value of those digits       *)
(* exceeds 65535 (":80800"), when the input does not start with ":" and    *)
(* when no digit follows the ":".                                          *)
C7_PortFirstFiveDigits ==
    op = "port" =>
        IF StartsWith(input, {":"}) /\ LeadDigits(Tail(input)) >= 1
        THEN LET d == LeadDigits(Tail(input))
                 m == IF d <= 5 THEN d ELSE 5
                 digits == Prefix(Tail(input), m)
             IN  IF DecimalValue(digits) <= 65535
                 THEN result = Ok(Drop(input, m + 1), DecimalValue(digits))
                 ELSE IsErr(result)
        ELSE IsErr(result)

C7_Witness ==
    /\ op = "port"
    /\ IsOk(result)
    /\ result.val = 65535
    /\ StartsWith(result.rest, DigitChars)

\* user, then ":" and a password of at least minPw characters, then "@".
AuthorityForm(i, minPw) ==
    LET u  == LeadRun(i, AlnumChars)
        a  == Drop(i, u)
        pw == LeadRun(Tail(a), AlnumChars)
    IN  IF u = 0 THEN None
        ELSE IF StartsWith(a, {"@"}) THEN Some(Ok(Tail(a), <<Prefix(i, u), None>>))
        ELSE IF /\ StartsWith(a, {":"})
                /\ pw >= minPw
                /\ StartsWith(Drop(a, pw + 1), {"@"})
        THEN Some(Ok(Drop(a, pw + 2),
                     <<Prefix(i, u),
                       IF pw = 0 THEN None ELSE Some(SubSeq(a, 2, pw + 1))>>))
        ELSE None

(* C8 as claimed: authority succeeds exactly on user (one or more          *)
(* alphanumerics), optionally ":" and a password (one or more              *)
(* alphanumerics), then "@"; it gives (user, Some(password)) or, without   *)
(* ":", (user, None), and the text after the "@".                          *)
C8_AuthorityAsClaimed ==
    op = "authority" =>
        LET e == AuthorityForm(input, 1)
        IN  IF e.some THEN result = e.val ELSE IsErr(result)

(* C8, amended: authority succeeds exactly on user (one or more            *)
(* alphanumerics), optionally ":" and zero or more alphanumerics, then     *)
(* "@"; it gives (user, Some(password)) when a non-empty password follows  *)
(* the ":", and (user, None) when there is no ":" or nothing between ":"   *)
(* and "@"; the remaining input starts right after the "@".  It fails when *)
(* the "@" is missing and when the user name is empty.                     *)
C8_AuthorityGrammar ==
    op = "authority" =>
        LET e  == AuthorityForm(input, 0)
            u  == LeadRun(input, AlnumChars)
        IN  /\ IF e.some THEN result = e.val ELSE IsErr(result)
            /\ (\A k \in 1..Len(input) : input[k] # "@") => IsErr(result)
            /\ u = 0 => IsErr(result)

C8_Witness ==
    /\ op = "authority"
    /\ IsOk(result)
    /\ ~result.val[2].some
    /\ input[Len(result.val[1]) + 1] = ":"
    /\ Len(result.rest) > 0

\* "k=v" pairs joined by "&" at the start of s, when s has that form.
RECURSIVE PairsForm(_)
PairsForm(s) ==
    LET k == LeadRun(s, CodePointChars)
        a == Drop(s, k)
        v == LeadRun(Tail(a), CodePointChars)
        b == Drop(a, v + 1)
        pair == <<Prefix(s, k), SubSeq(a, 2, v + 1)>>
    IN  IF ~StartsWith(a, {"="}) THEN None
        ELSE IF StartsWith(b, {"&"})
        THEN LET more == PairsForm(Tail(b))
             IN  IF more.some
                 THEN Some([pairs |-> <<pair>> \o more.val.pairs, rest |-> more.val.rest])
                 ELSE None
        ELSE Some([pairs |-> <<pair>>, rest |-> b])

(* C9: on "?k1=v1&...&kn=vn" (n >= 1, each ki and vi a run of              *)
(* alphanumerics, "-" and "."), followed by the end or a character that is *)
(* none of those nor "&", query_params gives exactly the n pairs in input  *)
(* order, pairs with the same key kept as separate entries, and the        *)
(* remaining input starts right after vn.                                  *)
C9_QueryPairsInOrder ==
    (op = "query_params" /\ StartsWith(input, {"?"}) /\ PairsForm(Tail(input)).some) =>
        LET e == PairsForm(Tail(input)).val
        IN  result = Ok(e.rest, e.pairs)

C9_Witness ==
    /\ op = "query_params"
    /\ IsOk(result)
    /\ Len(result.val) = 2
    /\ result.val[1][1] = result.val[2][1]
    /\ result.val[1][2] # result.val[2][2]
    /\ result.rest = <<"#","y","a","y">>

(* C10: path succeeds exactly on the inputs that start with "/".  Its      *)
(* value is the segments (runs of alphanumerics, "-" and ".") that a "/"   *)
(* ends, in order, empty ones included, followed by the segment after the  *)
(* last "/" when that one is non-empty; the remaining input is what        *)
(* follows the last segment.                                               *)
C10_PathSegments ==
    op = "path" =>
        IF StartsWith(input, {"/"})
        THEN LET n == LeadRun(Tail(input), CodePointChars \cup {"/"})
                 pieces == SplitOn(Prefix(Tail(input), n), "/")
                 last == pieces[Len(pieces)]
                 closed == Prefix(pieces, Len(pieces) - 1)
             IN  result = Ok(Drop(input, n + 1),
                             IF Len(last) > 0 THEN Append(closed, last) ELSE closed)
        ELSE IsErr(result)

C10_Witness ==
    /\ op = "path"
    /\ input = <<"/","a","/","b","/","c","/","?","d">>
    /\ result = Ok(<<"?","d">>, <<<<"a">>, <<"b">>, <<"c">>>>)

---------------------------------------------------------------------------
(* The text the alternation of scheme hands to Scheme::from, and the       *)
(* octets the sequence of ip hands to its closure.                         *)

SchemeMatch(i) == parse(alt(<<tag_no_case(S_http), tag_no_case(S_https)>>), i)

IpMatch(i) ==
    parse(tuple(<<count(terminated(fn("ip_num"), tag(<<".">>)), 3), fn("ip_num")>>), i)

(* C11: no parser panics: every outcome is a success or a failure value.   *)
(* The text scheme converts is "http://" or "https://" in some mix of      *)
(* cases, so Scheme::from does not reach its panic; ip receives exactly 3  *)
(* leading octets, so it writes the indices 0..2 and then 3 of its array.  *)
C11_NoPanic ==
    /\ op # "init" => result.kind \in {"Ok", "Err", "Failure"}
    /\ op = "scheme" =>
           LET t == SchemeMatch(input)
           IN  IsOk(t) =>
                   /\ to_lowercase(t.val) \in {L_http, L_https}
                   /\ Scheme_from(t.val).some
                   /\ IsOk(result)
    /\ op = "ip" =>
           LET o == IpMatch(input)
           IN  IsOk(o) =>
                   /\ Len(o.val[1]) = 3
                   /\ ip_fill(o.val[1], 0, <<0, 0, 0, 0>>).some
                   /\ IsOk(result)

C11_Witness ==
    /\ op = "scheme"
    /\ Len(input) > 8
    /\ Prefix(input, 8) = <<"H","t","T","p","S",":","/","/">>
    /\ result = Ok(Drop(input, 8), "Https")

---------------------------------------------------------------------------
(* Error trails.                                                           *)

\* The label each function gives to context.
OwnLabel(o) ==
    CASE o = "ip_num" -> "ip number"
      [] o = "ip_or_host" -> "ip or host"
      [] o = "query_params" -> "query params"
      [] OTHER -> o

\* Every entry is at or after the position of the entry that follows it.
InnermostFirst(errors) ==
    \A k \in 1..(Len(errors) - 1) : IsSuffix(errors[k][1], errors[k + 1][1])

LabelledTrail(r, i, o) ==
    /\ Len(r.errors) > 0
    /\ LastError(r) = CtxKind(i, OwnLabel(o))
    /\ InnermostFirst(r.errors)

\* The value of the first digits of s, at most w of them.
LeadValue(s, w) ==
    LET d == LeadDigits(s) IN DecimalValue(Prefix(s, IF d <= w THEN d ELSE w))

\* The digits o reads from i are there and their value does not fit.
OutOfRange(o, i) ==
    \/ o = "ip_num" /\ LeadDigits(i) >= 1 /\ LeadValue(i, 3) > 255
    \/ /\ o = "port"
       /\ StartsWith(i, {":"})
       /\ LeadDigits(Tail(i)) >= 1
       /\ LeadValue(Tail(i), 5) > 65535

(* C13, as stated: whenever a parser fails, its error trail is ordered     *)
(* innermost failure first and its last entry is (the input the parser     *)
(* was given, the parser's own context label), for numeric range failures  *)
(* as for the others.                                                      *)
C13_TrailAsClaimed ==
    (op # "init" /\ ~IsOk(result)) =>
        /\ IsErr(result)
        /\ LabelledTrail(result, input, op)

(* C13, amended: whenever a parser fails for another reason than a number  *)
(* out of range, its error trail is ordered innermost failure first and    *)
(* its last entry is (the input the parser was given, the parser's own     *)
(* context label).  When the digits ip_num or port has read are out of     *)
(* range (above 255, above 65535) the error trail is empty: it has no      *)
(* entry and no label.  An ip whose first octet is out of range therefore  *)
(* fails with the two entries (input, Count) and (input, "ip") only.       *)
C13_TrailEndsWithLabel ==
    /\ (op # "init" /\ ~IsOk(result)) =>
           /\ IsErr(result)
           /\ IF OutOfRange(op, input)
              THEN result.errors = <<>>
              ELSE LabelledTrail(result, input, op)
    /\ (op = "ip" /\ OutOfRange("ip_num", input)) =>
           result = Err(<<NomKind(input, "Count"), CtxKind(input, "ip")>>)

C13_Witness ==
    /\ op = "port"
    /\ input = <<":","8","0","8","0","0">>
    /\ result = Err(<<>>)

---------------------------------------------------------------------------
(* The cursor.                                                             *)

\* r is a failure on i that came after a part of i had matched: the
\* innermost entry of the trail is further on than i, or the digits read
\* were out of range.
MatchedPart(r, i) == IsErr(r) /\ (Len(r.errors) = 0 \/ r.errors[1][1] # i)

LocalhostUri == <<"h","t","t","p",":","/","/","l","o","c","a","l","h","o","s","t",":","8","0","8","0","/","x">>

\* What uri returns when the scheme has succeeded and left c1, told
\* from the failures of the optional components: a component that fails
\* at c is None and the component after it is the one found at c.
FailedComponentsConsumeNothing(c1, r) ==
    LET a  == authority(c1)
        c2 == IF IsErr(a) THEN c1 ELSE a.rest
        h  == ip_or_host(c2)
    IN  /\ IsErr(a) /\ IsOk(r) => r.val.authority = None
        /\ IsErr(a) => (IsOk(r) <=> IsOk(ip_or_host(c1)))
        /\ IsOk(r) <=> IsOk(h)
        /\ IsOk(r) =>
               LET p  == port(h.rest)
                   c4 == IF IsErr(p) THEN h.rest ELSE p.rest
                   pa == path(c4)
                   c5 == IF IsErr(pa) THEN c4 ELSE pa.rest
                   qu == query_params(c5)
                   c6 == IF IsErr(qu) THEN c5 ELSE qu.rest
                   f  == fragment(c6)
               IN  /\ r.val.host = h.val
                   /\ IsErr(p) => r.val.port = None /\ r.val.path = OptValue(path(h.rest))
                   /\ IsErr(pa) =>
                          r.val.path = None /\ r.val.query = OptValue(query_params(c4))
                   /\ IsErr(qu) =>
                          r.val.query = None /\ r.val.fragment = OptValue(fragment(c5))
                   /\ IsErr(f) => r.val.fragment = None /\ r.rest = c6
                   /\ ~MatchedPart(pa, c4) /\ ~MatchedPart(f, c6)

(* C14: the cursor only moves forward, and a failed component consumes     *)
(* nothing.  A parser that succeeds returns a suffix of its input.  Inside *)
(* uri, an optional component that fails, also after a part of the input   *)
(* had matched it, is None and the next component starts where the failed  *)
(* one started.  On "http://localhost:8080/x" authority matches            *)
(* "localhost:8080" and fails on "/x" for want of "@"; ip_or_host starts   *)
(* at "localhost:8080/x" and the result has Host("localhost"), port 8080.  *)
C14_CursorForward ==
    /\ (op # "init" /\ IsOk(result)) => IsSuffix(result.rest, input)
    /\ (op = "uri" /\ IsOk(scheme(input))) =>
           FailedComponentsConsumeNothing(scheme(input).rest, result)
    /\ (op = "uri" /\ input = LocalhostUri) =>
           /\ authority(Drop(input, 7)).errors[1] = NomKind(<<"/","x">>, "Tag")
           /\ result = Ok(<<>>, [scheme |-> "Http", authority |-> None,
                                 host |-> Host(<<"l","o","c","a","l","h","o","s","t">>),
                                 port |-> Some(8080), path |-> Some(<<<<"x">>>>),
                                 query |-> None, fragment |-> None])

C14_Witness ==
    /\ op = "uri"
    /\ input = LocalhostUri
    /\ MatchedPart(authority(Drop(input, 7)), Drop(input, 7))
    /\ IsOk(result)
    /\ result.val.authority = None
    /\ result.val.host = ip_or_host(Drop(input, 7)).val
    /\ result.val.port = Some(8080)

===========================================================================
